---- MODULE Spec2Model ----
(***************************************************************************)
(* Sentinel-2 MSI SAFE reader (satpy/readers/msi_safe.py).                 *)
(*                                                                         *)
(* Two handler objects are modelled:                                       *)
(*   md    the product metadata handler SAFEMSIMDXML (calibration),        *)
(*   tile  the tile metadata handler SAFEMSITileMDXML (area, angles).      *)
(* mdcall and tcall record the last call made on each handler: its         *)
(* arguments, the values of its local variables and what it returned or    *)
(* raised.                                                                 *)
(*                                                                         *)
(* Floating point values are modelled as exact rationals extended with     *)
(* not-a-number and positive infinity; rounding is not modelled.           *)
(***************************************************************************)
EXTENDS Integers, Sequences, FiniteSets

VARIABLES md, mdcall, tile, tcall

vars == <<md, mdcall, tile, tcall>>

(***************************************************************************)
(* Bounds of the model.                                                    *)
(***************************************************************************)
\* largest raw digital number of a pixel (the SATURATED candidate)
MaxRaw == 2
\* largest number of pixels of a raw grid
MaxPixels == 1
\* largest number of calls made on the metadata handler
MaxCalls == 2

(***************************************************************************)
(* float64 values: a number n/d (d > 0, lowest terms), nan or +inf.        *)
(***************************************************************************)
Abs(i) == IF i < 0 THEN -i ELSE i

RECURSIVE GCD(_, _)
GCD(a, b) == IF b = 0 THEN a ELSE GCD(b, a % b)

NaN == [k |-> "nan", n |-> 0, d |-> 1]

Inf == [k |-> "inf", n |-> 0, d |-> 1]

Num(n, d) ==
    LET g == GCD(Abs(n), d)
    IN  [k |-> "num", n |-> n \div g, d |-> d \div g]

IsNaN(v) == v.k = "nan"

\* a + b, no operand being -inf
FAdd(a, b) ==
    IF IsNaN(a) \/ IsNaN(b) THEN NaN
    ELSE IF a.k = "inf" \/ b.k = "inf" THEN Inf
    ELSE Num(a.n * b.d + b.n * a.d, a.d * b.d)

\* a * m for an integer m > 0
FMulInt(a, m) ==
    IF a.k = "num" THEN Num(a.n * m, a.d) ELSE a

\* a / q for an integer q > 0
FDivInt(a, q) ==
    IF a.k = "num" THEN Num(a.n, a.d * q) ELSE a

\* numeric equality of two values (nan equals nothing)
FEq(a, b) ==
    /\ ~IsNaN(a)
    /\ ~IsNaN(b)
    /\ a.k = b.k
    /\ a.k = "num" => a.n * b.d = b.n * a.d

(***************************************************************************)
(* The product metadata document (self.root of SAFEMSIMDXML).              *)
(***************************************************************************)
SpecialNames == {"NODATA", "SATURATED"}

SpecialCandidates == {0, MaxRaw}

\* the Special_Values elements: name -> value, any of the names may be absent
SpecialTables ==
    UNION {[S -> SpecialCandidates] : S \in SUBSET SpecialNames}

\* the Spectral_Information elements: physicalBand -> bandId
SpectralTables == {[p \in {"B1", "B2"} |-> IF p = "B1" THEN 0 ELSE 1],
                   [p \in {"B1"} |-> 0]}

EmptyTable == [i \in {} |-> 0]

\* Radiometric_Offset_List: absent, or band_id -> offset
OffsetLists == {[present |-> FALSE, tab |-> EmptyTable],
                [present |-> TRUE, tab |-> [i \in {0} |-> -1]],
                [present |-> TRUE, tab |-> [i \in {0, 1} |-> -1 - i]]}

\* QUANTIFICATION_VALUE, a positive integer (the scale factor of the product)
Quantifications == {1, 2}

MDRoots == [quantification : Quantifications,
            special : SpecialTables,
            spectral : SpectralTables,
            offsets : OffsetLists]

Uncached == [cached |-> FALSE, val |-> EmptyTable]

NoScans == [index |-> 0, offsets |-> 0, special |-> 0]

(***************************************************************************)
(* SAFEMSIMDXML.  An operation takes the handler and returns the handler   *)
(* after it (caches filled, document scans counted) together with what it  *)
(* returned or raised.                                                     *)
(***************************************************************************)
band_conversions ==
    [b \in {"B01", "B02", "B03", "B04", "B05", "B06", "B07", "B08", "B8A",
            "B09", "B10", "B11", "B12"} |->
        CASE b = "B01" -> "B1" [] b = "B02" -> "B2" [] b = "B03" -> "B3"
          [] b = "B04" -> "B4" [] b = "B05" -> "B5" [] b = "B06" -> "B6"
          [] b = "B07" -> "B7" [] b = "B08" -> "B8" [] b = "B8A" -> "B8A"
          [] b = "B09" -> "B9" [] b = "B10" -> "B10" [] b = "B11" -> "B11"
          [] b = "B12" -> "B12"]

\* the cached property special_values: the document is scanned on the first
\* access only
special_values(self) ==
    IF self.c_special.cached THEN self
    ELSE [self EXCEPT !.c_special = [cached |-> TRUE, val |-> self.root.special],
                      !.scans.special = @ + 1]

\* band_offsets as a plain property: the list is read on every access
band_offsets_uncached(self) ==
    [self EXCEPT !.c_offsets =
                     [cached |-> TRUE,
                      val |-> IF self.root.offsets.present
                              THEN self.root.offsets.tab ELSE EmptyTable],
                 !.scans.offsets = @ + 1]

\* the cached property band_offsets
band_offsets(self) ==
    IF self.c_offsets.cached THEN self
    ELSE [self EXCEPT !.c_offsets =
                          [cached |-> TRUE,
                           val |-> IF self.root.offsets.present
                                   THEN self.root.offsets.tab ELSE EmptyTable],
                      !.scans.offsets = @ + 1]

\* band_offset(band): [self, exc, val].  The spectral-index table is rebuilt
\* from the document on every call.
band_offset(self, band) ==
    LET s0 == [self EXCEPT !.scans.index = @ + 1, !.calls = @ + 1]
        band_indices == self.root.spectral
    IN  IF band \notin DOMAIN band_conversions
           \/ band_conversions[band] \notin DOMAIN band_indices
        THEN [self |-> s0, exc |-> "KeyError", val |-> 0]
        ELSE LET band_index == band_indices[band_conversions[band]]
                 s1 == band_offsets(s0)
             IN  [self |-> s1, exc |-> "",
                  val |-> IF band_index \in DOMAIN s1.c_offsets.val
                          THEN s1.c_offsets.val[band_index] ELSE 0]

\* data.where(data != value, other), element-wise
where_ne(data, value, other) ==
    [i \in DOMAIN data |-> IF FEq(data[i], Num(value, 1)) THEN other ELSE data[i]]

\* the arithmetic of calibrate
scale(data, offset, quantification) ==
    [i \in DOMAIN data |->
        FMulInt(FDivInt(FAdd(data[i], Num(offset, 1)), quantification), 100)]

Raised(self, exc) == [self |-> self, exc |-> exc, out |-> <<>>]

\* calibrate without its NODATA step
mask_no_data_skipped(data, nodata) == data

\* the NODATA step of calibrate
mask_no_data(data, nodata) == where_ne(data, nodata, NaN)

\* calibrate with the handler's flag ignored, as if it were deleted
mask_saturation_off(self, data) == data

\* the saturation step of calibrate; self.saturated is read only when the
\* handler's flag is set
mask_saturation(self, data) ==
    IF self.mask_saturated
    THEN where_ne(data, self.c_special.val["SATURATED"], Inf)
    ELSE data

\* calibrate(data, band_name): [self, exc, out]
calibrate(self, raw, band_name) ==
    LET quantification == self.root.quantification
        data0 == [i \in DOMAIN raw |-> Num(raw[i], 1)]
        s1 == special_values(self)
    IN  IF "NODATA" \notin DOMAIN s1.c_special.val
        THEN Raised(s1, "KeyError")
        ELSE IF s1.mask_saturated /\ "SATURATED" \notin DOMAIN s1.c_special.val
        THEN Raised(s1, "KeyError")
        ELSE
          LET data1 == mask_no_data(data0, s1.c_special.val["NODATA"])
              data2 == mask_saturation(s1, data1)
              off == band_offset(s1, band_name)
          IN  IF off.exc # ""
              THEN Raised(off.self, off.exc)
              ELSE [self |-> off.self, exc |-> "",
                    out |-> scale(data2, off.val, quantification)]

(***************************************************************************)
(* Calls on the metadata handler.                                          *)
(***************************************************************************)
RawValues == 0 .. MaxRaw

RawGrids == UNION {[1 .. len -> RawValues] : len \in 1 .. MaxPixels}

BandLabels == {"B01", "B02", "B13"}

NoMDCall == [op |-> "none", band |-> "", raw |-> <<>>, exc |-> "",
             offset |-> 0, out |-> <<>>]

Calibrate ==
    /\ md.calls < MaxCalls
    /\ \E raw \in RawGrids, band \in BandLabels :
          \E r \in {calibrate(md, raw, band)} :
              /\ md' = r.self
              /\ mdcall' = [op |-> "calibrate", band |-> band, raw |-> raw,
                            exc |-> r.exc, offset |-> 0, out |-> r.out]
    /\ UNCHANGED <<tile, tcall>>

BandOffset ==
    /\ md.calls < MaxCalls
    /\ \E band \in BandLabels :
          \E r \in {band_offset(md, band)} :
              /\ md' = r.self
              /\ mdcall' = [op |-> "band_offset", band |-> band, raw |-> <<>>,
                            exc |-> r.exc, offset |-> r.val, out |-> <<>>]
    /\ UNCHANGED <<tile, tcall>>

(***************************************************************************)
(* Bounds of the tile model.                                               *)
(***************************************************************************)
\* largest NROWS / NCOLS of a resolution's pixel grid
MaxOut == 3
\* shape of the coarse angle grids of a tile document
CoarseRows == 2
CoarseCols == 3
\* largest number of per-detector grids of bandId 1
MaxDetectors == 2

(***************************************************************************)
(* More float64 arithmetic, for the angle grids (no infinities there).     *)
(***************************************************************************)
FMul(a, b) ==
    IF IsNaN(a) \/ IsNaN(b) THEN NaN ELSE Num(a.n * b.n, a.d * b.d)

FSub(a, b) ==
    IF IsNaN(a) \/ IsNaN(b) THEN NaN ELSE Num(a.n * b.d - b.n * a.d, a.d * b.d)

\* a / m for an integer m >= 0 and a >= 0, numpy's true division: x/0 is
\* nan for x = 0 and inf otherwise
TrueDiv(a, m) ==
    IF m # 0 THEN FDivInt(a, m)
    ELSE IF a.k = "num" /\ a.n = 0 THEN NaN
    ELSE IF a.k = "num" THEN Inf ELSE a

\* floor of a value >= 0
Floor(a) == a.n \div a.d

Min(i, j) == IF i < j THEN i ELSE j

Max(i, j) == IF i > j THEN i ELSE j

\* the sequence s with its elements computed once
Eager(s) == s \o <<>>

\* a 2-D array as a sequence of rows; <<>> is the 1-D empty array
NRows(g) == Len(g)

NCols(g) == IF Len(g) = 0 THEN 0 ELSE Len(g[1])

HasNaN(g) == \E r \in DOMAIN g : \E c \in DOMAIN g[r] : IsNaN(g[r][c])

(***************************************************************************)
(* The tile metadata document (self.root of SAFEMSITileMDXML).             *)
(*   sizes   Tile_Geocoding/Size[@resolution]: resolution -> NROWS, NCOLS  *)
(*   geopos  Tile_Geocoding/Geoposition[@resolution]: resolution ->        *)
(*           ULX, ULY, XDIM, YDIM                                          *)
(*   epsg    Tile_Geocoding/HORIZONTAL_CS_CODE                             *)
(*   sun     Tile_Angles: the VALUES rows under a solar xml_tag            *)
(*   view    Tile_Angles: the elements xml_tag[@bandId="1"], one per       *)
(*           detector, each the VALUES rows under its xml_item             *)
(* A document holds the same rows under its Zenith and its Azimuth tags.   *)
(***************************************************************************)
Resolutions == {10, 60}

SizeRecs == [rows : 1 .. MaxOut, cols : 1 .. MaxOut]

GeoRecs == [ulx : {3}, uly : {7}, xdim : {2}, ydim : {-2, 3}]

SizeTables == UNION {[S -> SizeRecs] : S \in SUBSET Resolutions}

GeoTables == UNION {[S -> GeoRecs] : S \in SUBSET Resolutions}

\* the angle a document gives for detector det (0 for the sun) at a cell
CellValue(det, r, c) == 40 * det + 7 * r * r + c * c

Cells == (1 .. CoarseRows) \X (1 .. CoarseCols)

\* a coarse grid whose cells in missing read "NaN"
AngleGrid(det, missing) ==
    Eager([r \in 1 .. CoarseRows |->
        Eager([c \in 1 .. CoarseCols |->
            IF <<r, c>> \in missing THEN NaN ELSE Num(CellValue(det, r, c), 1)])])

\* the solar grids: any set of cells missing, or no VALUES element at all
SunGrids == {AngleGrid(0, m) : m \in SUBSET Cells} \cup {<<>>}

\* what a detector does not see: nothing, everything, the first cell or one
\* column
DetectorMasks ==
    {{}, Cells, {<<1, 1>>}}
      \cup {{cell \in Cells : cell[2] = c} : c \in 1 .. CoarseCols}

RECURSIVE DetectorLists(_)
DetectorLists(n) ==
    IF n = 0 THEN {<<>>}
    ELSE LET shorter == DetectorLists(n - 1)
         IN  shorter \cup
             {Append(ds, AngleGrid(n, m)) :
                 ds \in {l \in shorter : Len(l) = n - 1}, m \in DetectorMasks}

ViewGrids == DetectorLists(MaxDetectors)

NoArea == [area_id |-> "", description |-> "", proj_id |-> "",
           projection |-> [kind |-> "", code |-> ""],
           width |-> 0, height |-> 0, area_extent |-> <<0, 0, 0, 0>>]

(***************************************************************************)
(* SAFEMSITileMDXML.get_area_def                                           *)
(***************************************************************************)
\* the extent with the sign of ydim turned
area_extent_negated(ulx, uly, rows, cols, xdim, ydim) ==
    <<ulx, uly - rows * ydim, ulx + cols * xdim, uly>>

\* line 199
area_extent(ulx, uly, rows, cols, xdim, ydim) ==
    <<ulx, uly + rows * ydim, ulx + cols * xdim, uly>>

\* get_area_def(dsid): [exc, area]
get_area_def(self, resolution) ==
    IF resolution \notin DOMAIN self.root.sizes
    THEN \* find() returns None, None.text
         [exc |-> "AttributeError", area |-> NoArea]
    ELSE IF resolution \notin DOMAIN self.root.geopos
    THEN \* geoposition is None, None.find
         [exc |-> "AttributeError", area |-> NoArea]
    ELSE
      LET rows == self.root.sizes[resolution].rows
          cols == self.root.sizes[resolution].cols
          geoposition == self.root.geopos[resolution]
          proj == IF self.pyproj
                  THEN [kind |-> "CRS", code |-> self.root.epsg]
                  ELSE [kind |-> "init", code |-> self.root.epsg]
      IN  [exc |-> "",
           area |-> [area_id |-> self.tile,
                     description |-> "On-the-fly area",
                     proj_id |-> self.tile,
                     projection |-> proj,
                     width |-> cols,
                     height |-> rows,
                     area_extent |-> area_extent(geoposition.ulx, geoposition.uly,
                                                 rows, cols,
                                                 geoposition.xdim, geoposition.ydim)]]

(***************************************************************************)
(* SAFEMSITileMDXML.interpolate_angles                                     *)
(***************************************************************************)
\* MultilinearInterpolator(smin = [0, 0], smax = shape - 1, orders = shape)
\* evaluated at the point (s_0, s_1): in each dimension the interval index
\* q = max(min(int(s), order - 2), 0) and the barycentric coordinate
\* lam = s - q.  A nan coordinate makes lam nan, and the result nan,
\* whatever interval index the cast of nan to int yields.
minterp(values, s_0, s_1) ==
    IF IsNaN(s_0) \/ IsNaN(s_1) THEN NaN
    ELSE LET q_0 == Max(Min(Floor(s_0), NRows(values) - 2), 0)
             q_1 == Max(Min(Floor(s_1), NCols(values) - 2), 0)
             lam_0 == FSub(s_0, Num(q_0, 1))
             lam_1 == FSub(s_1, Num(q_1, 1))
             one == Num(1, 1)
             v_00 == values[q_0 + 1][q_1 + 1]
             v_01 == values[q_0 + 1][q_1 + 2]
             v_10 == values[q_0 + 2][q_1 + 1]
             v_11 == values[q_0 + 2][q_1 + 2]
         IN  FAdd(FMul(FSub(one, lam_0),
                       FAdd(FMul(FSub(one, lam_1), v_00), FMul(lam_1, v_01))),
                  FMul(lam_0,
                       FAdd(FMul(FSub(one, lam_1), v_10), FMul(lam_1, v_11))))

\* arange(n) / (n - 1) * (coarse - 1), the coarse coordinate of output index i
coordinate(i, n, coarse) ==
    LET q == TrueDiv(Num(i, 1), n - 1)
    IN  IF q.k = "num" THEN Num(q.n * (coarse - 1), q.d) ELSE q

\* interpolate_angles(angles, resolution): [exc, grid]
interpolate_angles(self, angles, resolution) ==
    IF resolution \notin DOMAIN self.root.sizes
    THEN \* find() returns None, None.text
         [exc |-> "AttributeError", grid |-> <<>>]
    ELSE
      LET rows == self.root.sizes[resolution].rows
          cols == self.root.sizes[resolution].cols
      IN  [exc |-> "",
           grid |-> Eager([i \in 1 .. rows |->
                       Eager([j \in 1 .. cols |->
                           minterp(angles,
                                   coordinate(i - 1, rows, NRows(angles)),
                                   coordinate(j - 1, cols, NCols(angles)))])])]

(***************************************************************************)
(* SAFEMSITileMDXML._get_coarse_dataset                                    *)
(***************************************************************************)
Count(S) == Cardinality(S)

RECURSIVE SumAt(_, _, _, _)
\* the sum of arrays[d][r][c] over the d in ds
SumAt(arrays, ds, r, c) ==
    IF ds = {} THEN Num(0, 1)
    ELSE LET d == CHOOSE x \in ds : TRUE
         IN  FAdd(arrays[d][r][c], SumAt(arrays, ds \ {d}, r, c))

\* np.mean(np.dstack(arrays), -1): nan wherever an array is nan
mean_of_stack(arrays) ==
    Eager([r \in DOMAIN arrays[1] |->
        Eager([c \in DOMAIN arrays[1][r] |->
            TrueDiv(SumAt(arrays, DOMAIN arrays, r, c), Len(arrays))])])

\* np.nanmean(np.dstack(arrays), -1): the mean of the entries that are not
\* nan, nan where there is none
nanmean(arrays) ==
    Eager([r \in DOMAIN arrays[1] |->
        Eager([c \in DOMAIN arrays[1][r] |->
            LET valid == {d \in DOMAIN arrays : ~IsNaN(arrays[d][r][c])}
            IN  IF valid = {} THEN NaN
                ELSE TrueDiv(SumAt(arrays, valid, r, c), Count(valid))])])

SolarNames == {"solar_zenith_angle", "solar_azimuth_angle"}

SatelliteNames == {"satellite_zenith_angle", "satellite_azimuth_angle"}

\* _get_coarse_dataset(key, info): [ret, exc, angles]; ret is "array",
\* "none" (return None) or "raise"
get_coarse_dataset(self, name) ==
    IF name \in SolarNames
    THEN \* no VALUES element gives np.array([]), of shape (0,)
         [ret |-> "array", exc |-> "", angles |-> self.root.sun]
    ELSE IF name \in SatelliteNames
    THEN IF Len(self.root.view) = 0
         THEN \* np.dstack([]) raises
              [ret |-> "raise", exc |-> "ValueError", angles |-> <<>>]
         ELSE [ret |-> "array", exc |-> "", angles |-> nanmean(self.root.view)]
    ELSE [ret |-> "none", exc |-> "", angles |-> <<>>]

(***************************************************************************)
(* SAFEMSITileMDXML.get_dataset                                            *)
(***************************************************************************)
Known(row) == {c \in DOMAIN row : ~IsNaN(row[c])}

SetMin(S) == CHOOSE x \in S : \A y \in S : x <= y

SetMax(S) == CHOOSE x \in S : \A y \in S : x >= y

\* bfill / ffill of one row or column: a nan takes the next / the last value
\* that is not nan, when there is one
bfill1(row) ==
    Eager([c \in DOMAIN row |->
        LET next == {k \in Known(row) : k >= c}
        IN  IF next = {} THEN NaN ELSE row[SetMin(next)]])

ffill1(row) ==
    Eager([c \in DOMAIN row |->
        LET last == {k \in Known(row) : k <= c}
        IN  IF last = {} THEN NaN ELSE row[SetMax(last)]])

Transpose(g) ==
    Eager([c \in 1 .. NCols(g) |-> Eager([r \in 1 .. NRows(g) |-> g[r][c]])])

bfill_x(g) == Eager([r \in DOMAIN g |-> bfill1(g[r])])

ffill_x(g) == Eager([r \in DOMAIN g |-> ffill1(g[r])])

bfill_y(g) == Transpose(bfill_x(Transpose(g)))

ffill_y(g) == Transpose(ffill_x(Transpose(g)))

\* the fill with ffill before bfill on each axis
fill_gaps_forward_first(angles) == bfill_y(ffill_y(bfill_x(ffill_x(angles))))

\* the fill along x alone
fill_gaps_x_only(angles) == ffill_x(bfill_x(angles))

\* lines 264-269: the fill of the gaps at the edges of the swath
fill_gaps(angles) == ffill_y(bfill_y(ffill_x(bfill_x(angles))))

NoResult == [ret |-> "none", exc |-> "", coarse |-> <<>>, filled |-> <<>>,
             grid |-> <<>>, units |-> "", platform_name |-> ""]

\* get_dataset(key, info): ret is "grid", "none" (return None) or "raise"
get_dataset(self, name, resolution) ==
    LET got == get_coarse_dataset(self, name)
    IN  IF got.ret = "raise"
        THEN [NoResult EXCEPT !.ret = "raise", !.exc = got.exc]
        ELSE IF got.ret = "none"
        THEN NoResult
        ELSE IF NRows(got.angles) = 0
        THEN \* DataArray(angles, dims=['y', 'x']) of a 1-D array
             [NoResult EXCEPT !.ret = "raise", !.exc = "ValueError",
                              !.coarse = got.angles]
        ELSE
          LET angles == fill_gaps(got.angles)
              res == interpolate_angles(self, angles, resolution)
          IN  IF res.exc # ""
              THEN [NoResult EXCEPT !.ret = "raise", !.exc = res.exc,
                                    !.coarse = got.angles, !.filled = angles]
              ELSE [ret |-> "grid", exc |-> "", coarse |-> got.angles,
                    filled |-> angles, grid |-> res.grid,
                    units |-> "degrees",
                    platform_name |-> self.platform_name]

(***************************************************************************)
(* Calls on the tile handler.  The handler is never modified and what a    *)
(* call returns depends on the document and the arguments only, so a       *)
(* behaviour makes one call.                                               *)
(***************************************************************************)
DatasetNames == SolarNames \cup SatelliteNames \cup {"B01"}

NoTCall == [op |-> "none", name |-> "", resolution |-> 0, ret |-> "none",
            exc |-> "", area |-> NoArea, coarse |-> <<>>, filled |-> <<>>,
            grid |-> <<>>, units |-> ""]

GetAreaDef ==
    /\ tcall.op = "none"
    /\ \E resolution \in Resolutions :
          \E r \in {get_area_def(tile, resolution)} :
              tcall' = [NoTCall EXCEPT !.op = "get_area_def",
                                       !.resolution = resolution,
                                       !.ret = IF r.exc = "" THEN "area" ELSE "raise",
                                       !.exc = r.exc,
                                       !.area = r.area]
    /\ UNCHANGED <<md, mdcall, tile>>

GetDataset ==
    /\ tcall.op = "none"
    /\ \E name \in DatasetNames, resolution \in Resolutions :
          \E r \in {get_dataset(tile, name, resolution)} :
              tcall' = [NoTCall EXCEPT !.op = "get_dataset",
                                       !.name = name,
                                       !.resolution = resolution,
                                       !.ret = r.ret,
                                       !.exc = r.exc,
                                       !.coarse = r.coarse,
                                       !.filled = r.filled,
                                       !.grid = r.grid,
                                       !.units = r.units]
    /\ UNCHANGED <<md, mdcall, tile>>

TileHandlers(roots, CRS) ==
    [root : roots, tile : {"T32ULB"}, platform_name : {"Sentinel-2A"},
     pyproj : CRS]

\* documents with any geocoding and no angle values
GeocodingRoots ==
    [sizes : SizeTables, geopos : GeoTables, epsg : {"EPSG:32632"},
     sun : {<<>>}, view : {<<>>}]

DefaultGeo == [ulx |-> 3, uly |-> 7, xdim |-> 2, ydim |-> -2]

\* the pixel grids of resolution 10 of the documents with angle values: one
\* or MaxOut rows, one or MaxOut columns
AngleSizes == [{10} -> [rows : {1, MaxOut}, cols : {1, MaxOut}]]

\* documents with any angle values, solar or per detector, and resolution 10
AngleRoots ==
    [sizes : AngleSizes, geopos : {[r \in {10} |-> DefaultGeo]},
     epsg : {"EPSG:32632"},
     sun : SunGrids, view : {<<>>}]
    \cup
    [sizes : AngleSizes, geopos : {[r \in {10} |-> DefaultGeo]},
     epsg : {"EPSG:32632"},
     sun : {<<>>}, view : ViewGrids]

NoMD == [root |-> [quantification |-> 1, special |-> EmptyTable,
                   spectral |-> [p \in {"B1"} |-> 0],
                   offsets |-> [present |-> FALSE, tab |-> EmptyTable]],
         mask_saturated |-> FALSE, c_special |-> Uncached,
         c_offsets |-> Uncached, scans |-> NoScans, calls |-> 0]

NoTile == [root |-> [sizes |-> EmptyTable, geopos |-> EmptyTable,
                     epsg |-> "", sun |-> <<>>, view |-> <<>>],
           tile |-> "", platform_name |-> "", pyproj |-> FALSE]

InitTile ==
    /\ tile \in TileHandlers(GeocodingRoots, BOOLEAN) \cup TileHandlers(AngleRoots, {TRUE})
    /\ tcall = NoTCall
    /\ md = NoMD
    /\ mdcall = NoMDCall

NextTile == GetAreaDef \/ GetDataset

SpecTile == InitTile /\ [][NextTile]_vars

InitCal ==
    /\ md \in [root : MDRoots,
               mask_saturated : BOOLEAN,
               c_special : {Uncached},
               c_offsets : {Uncached},
               scans : {NoScans},
               calls : {0}]
    /\ mdcall = NoMDCall
    /\ tile = NoTile
    /\ tcall = NoTCall

NextCal == Calibrate \/ BandOffset

SpecCal == InitCal /\ [][NextCal]_vars

(***************************************************************************)
(* Properties of calibrate and band_offset, checked under SpecCal.         *)
(***************************************************************************)
CalibrateReturned == mdcall.op = "calibrate" /\ mdcall.exc = ""

\* the offset the document lists for a band label, 0 when it lists none
ListedOffset(root, band) ==
    LET id == root.spectral[band_conversions[band]]
    IN  IF root.offsets.present /\ id \in DOMAIN root.offsets.tab
        THEN root.offsets.tab[id] ELSE 0

\* v is the number (x + offset) / quantification * 100
IsCalibrated(v, x, offset, quantification) ==
    /\ v.k = "num"
    /\ v.n * quantification = (x + offset) * 100 * v.d

\* C1: whenever calibrate returns, the pixels missing in its output are
\* exactly the pixels whose raw value is the document's NODATA value,
\* whatever the band, its offset, the quantification value and the
\* mask_saturated flag are.
C1_NoDataIsMissing ==
    CalibrateReturned =>
        \A i \in DOMAIN mdcall.raw :
            IsNaN(mdcall.out[i]) <=> mdcall.raw[i] = md.root.special["NODATA"]

\* a pixel that is both the NODATA and the SATURATED value, calibrated with
\* mask_saturated set, is missing
C1_Witness ==
    /\ CalibrateReturned
    /\ md.mask_saturated
    /\ \E i \in DOMAIN mdcall.raw :
          /\ mdcall.raw[i] = md.root.special["NODATA"]
          /\ mdcall.raw[i] = md.root.special["SATURATED"]
          /\ IsNaN(mdcall.out[i])

\* C2: whenever calibrate returns, a pixel that is not NODATA is +inf when
\* it is the SATURATED value and the handler's mask_saturated flag is set,
\* and (raw + offset of the band) / quantification * 100 otherwise, the
\* SATURATED value with the flag unset included.
C2_Saturated ==
    CalibrateReturned =>
        \A i \in DOMAIN mdcall.raw :
            mdcall.raw[i] # md.root.special["NODATA"] =>
                IF md.mask_saturated
                   /\ mdcall.raw[i] = md.root.special["SATURATED"]
                THEN mdcall.out[i] = Inf
                ELSE IsCalibrated(mdcall.out[i], mdcall.raw[i],
                                  ListedOffset(md.root, mdcall.band),
                                  md.root.quantification)

\* a saturated pixel calibrated with the flag set, for a band with an offset
C2_Witness ==
    /\ CalibrateReturned
    /\ md.mask_saturated
    /\ ListedOffset(md.root, mdcall.band) # 0
    /\ \E i \in DOMAIN mdcall.raw :
          /\ mdcall.raw[i] = md.root.special["SATURATED"]
          /\ mdcall.raw[i] # md.root.special["NODATA"]
          /\ mdcall.out[i] = Inf

C3_AreaExtent ==
    (/\ tcall.op = "get_area_def"
     /\ tcall.resolution \in DOMAIN tile.root.sizes
     /\ tcall.resolution \in DOMAIN tile.root.geopos) =>
        LET size == tile.root.sizes[tcall.resolution]
            geo == tile.root.geopos[tcall.resolution]
        IN  /\ tcall.ret = "area"
            /\ tcall.area.area_extent[1] = geo.ulx
            /\ tcall.area.area_extent[2] = geo.uly + size.rows * geo.ydim
            /\ tcall.area.area_extent[3] = geo.ulx + size.cols * geo.xdim
            /\ tcall.area.area_extent[4] = geo.uly
            /\ tcall.area.width = size.cols
            /\ tcall.area.height = size.rows

\* an area of a grid that is not square and whose ydim is positive
C3_Witness ==
    /\ tcall.op = "get_area_def"
    /\ tcall.ret = "area"
    /\ tcall.area.width # tcall.area.height
    /\ tile.root.geopos[tcall.resolution].ydim > 0

\* the requested angle kind has no element in the document
NoMatchingElements ==
    \/ tcall.name \in SolarNames /\ Len(tile.root.sun) = 0
    \/ tcall.name \in SatelliteNames /\ Len(tile.root.view) = 0
    \/ tcall.name \notin SolarNames \cup SatelliteNames

\* C4 as stated: get_dataset returns None whenever the requested kind has no
\* matching element.
C4_Original ==
    (tcall.op = "get_dataset" /\ NoMatchingElements) => tcall.ret = "none"

\* the call read the geocoding of a resolution the document does not define
UndefinedResolution ==
    \/ /\ tcall.op = "get_area_def"
       /\ \/ tcall.resolution \notin DOMAIN tile.root.sizes
          \/ tcall.resolution \notin DOMAIN tile.root.geopos
    \/ /\ tcall.op = "get_dataset"
       /\ Len(tcall.filled) > 0
       /\ tcall.resolution \notin DOMAIN tile.root.sizes

\* C5 as stated: a request for a resolution the geocoding does not define
\* raises ResolutionNotFound and gives no area and no grid.
C5_Original ==
    UndefinedResolution =>
        /\ tcall.ret = "raise"
        /\ tcall.exc = "ResolutionNotFound"
        /\ tcall.area = NoArea
        /\ Len(tcall.grid) = 0

AllNaN(g) == \A r \in DOMAIN g : \A c \in DOMAIN g[r] : IsNaN(g[r][c])

\* C6 as stated, for the targets of two rows and two columns at least: a
\* returned grid and the filled coarse grid it comes from hold no missing
\* cell, whatever cells the extracted grid misses.
C6_Original ==
    (/\ tcall.ret = "grid"
     /\ tile.root.sizes[tcall.resolution].rows >= 2
     /\ tile.root.sizes[tcall.resolution].cols >= 2) =>
        ~HasNaN(tcall.filled) /\ ~HasNaN(tcall.grid)

\* C6 as amended: when get_dataset returns a grid, the filled coarse grid
\* has no missing cell if the extracted grid has a cell that is not missing,
\* and is missing everywhere otherwise; the returned grid has no missing
\* cell if moreover the target has two rows and two columns at least, and is
\* missing everywhere otherwise.
C6_Amended ==
    tcall.ret = "grid" =>
        LET size == tile.root.sizes[tcall.resolution]
        IN  IF AllNaN(tcall.coarse)
            THEN AllNaN(tcall.filled) /\ AllNaN(tcall.grid)
            ELSE /\ ~HasNaN(tcall.filled)
                 /\ IF size.rows >= 2 /\ size.cols >= 2
                    THEN ~HasNaN(tcall.grid)
                    ELSE AllNaN(tcall.grid)

\* a grid returned from a coarse grid with a missing row and, in another
\* row, a missing cell
C6_Witness ==
    /\ tcall.ret = "grid"
    /\ \E r \in DOMAIN tcall.coarse : AllNaN(<<tcall.coarse[r]>>)
    /\ \E r \in DOMAIN tcall.coarse :
          HasNaN(<<tcall.coarse[r]>>) /\ ~AllNaN(<<tcall.coarse[r]>>)
    /\ ~HasNaN(tcall.filled)
    /\ ~HasNaN(tcall.grid)

\* the detectors of the document that report a value at a cell
Reporting(r, c) ==
    {d \in DOMAIN tile.root.view : ~IsNaN(tile.root.view[d][r][c])}

RECURSIVE Total(_, _, _)
\* the sum of the (integer) values the detectors ds report at a cell
Total(ds, r, c) ==
    IF ds = {} THEN 0
    ELSE LET d == CHOOSE x \in ds : TRUE
         IN  tile.root.view[d][r][c].n + Total(ds \ {d}, r, c)

\* C7: the coarse grid of a satellite angle is, cell by cell, the mean of the
\* values the detectors of bandId 1 report there, and missing only where no
\* detector reports a value.
C7_NanMean ==
    (/\ tcall.op = "get_dataset"
     /\ tcall.name \in SatelliteNames
     /\ Len(tile.root.view) > 0) =>
        /\ Len(tcall.coarse) = CoarseRows
        /\ \A r \in DOMAIN tcall.coarse :
              /\ Len(tcall.coarse[r]) = CoarseCols
              /\ \A c \in DOMAIN tcall.coarse[r] :
                    IF Reporting(r, c) = {}
                    THEN IsNaN(tcall.coarse[r][c])
                    ELSE /\ tcall.coarse[r][c].k = "num"
                         /\ tcall.coarse[r][c].n * Cardinality(Reporting(r, c))
                              = Total(Reporting(r, c), r, c) * tcall.coarse[r][c].d

\* two detectors and a cell missing in the first one only: the reduced value
\* is the second detector's
C7_Witness ==
    /\ tcall.op = "get_dataset"
    /\ tcall.name \in SatelliteNames
    /\ Len(tile.root.view) = 2
    /\ \E r \in 1 .. CoarseRows, c \in 1 .. CoarseCols :
          /\ Reporting(r, c) = {2}
          /\ tcall.coarse[r][c] = tile.root.view[2][r][c]

KnownCols(r) == {c \in DOMAIN tcall.coarse[r] : ~IsNaN(tcall.coarse[r][c])}

KnownRows == {r \in DOMAIN tcall.coarse : KnownCols(r) # {}}

\* row r after the fill along x: the next value of the row, else the last
AlongX(r, c) ==
    IF \E k \in KnownCols(r) : k >= c
    THEN tcall.coarse[r][SetMin({k \in KnownCols(r) : k >= c})]
    ELSE tcall.coarse[r][SetMax(KnownCols(r))]

C10_Original ==
    (/\ tcall.op = "get_dataset"
     /\ Len(tcall.filled) > 0
     /\ ~HasNaN(tcall.filled)
     /\ tcall.resolution \in DOMAIN tile.root.sizes
     /\ \/ tile.root.sizes[tcall.resolution].rows = 1
        \/ tile.root.sizes[tcall.resolution].cols = 1) =>
        /\ tcall.ret = "grid"
        /\ NRows(tcall.grid) = tile.root.sizes[tcall.resolution].rows
        /\ NCols(tcall.grid) = tile.root.sizes[tcall.resolution].cols
        /\ ~HasNaN(tcall.grid)

====
